---- MODULE Spec2Model ----
(***************************************************************************)
(* A model of package play (src/play.go): the App registry of synthdefs,   *)
(* guarded by a sync.RWMutex, with the operations Add, List and Play run   *)
(* by concurrent goroutines.                                               *)
(*                                                                         *)
(* Go strings are sequences of one-character strings.  A string literal of *)
(* the source that holds no '%' and no '=' is kept as one element (a       *)
(* chunk), so "unrecognized sound: " + sound is                            *)
(* <<"unrecognized sound: ">> \o sound.  The characters of the inputs are  *)
(* letters, the digits, '=' and '%': no sign, dot, exponent, flag, '*',    *)
(* '[' or '_' character occurs, and Sprintf and ParseFloat are modelled    *)
(* for this alphabet.                                                      *)
(***************************************************************************)
EXTENDS Naturals, Sequences, FiniteSets, TLC

VARIABLES
    m,      \* app.m: the registry, a function from names to synthdefs
    mu,     \* app.mu: [w: the goroutine that owns the write side, r: the readers]
    th,     \* per goroutine: program counter, arguments, locals, results
    hist,   \* history: for each name, the f of every Add call that returned nil
    opt     \* app.list and app.sound: the options the flag set writes

vars == <<m, mu, th, hist, opt>>

----------------------------------------------------------------------------
(* Bounds *)

NThreads == 2
MaxParams == 2

Threads == 1..NThreads

----------------------------------------------------------------------------
(* Inputs *)

\* sound names
Names == { <<"k">>, <<"s">> }

\* names of the scenario of concurrent Adds: one distinct name per goroutine
ScenNames == { [j \in 1..n |-> "k"] : n \in 1..NThreads }

AllNames == Names \cup ScenNames

\* sc.UgenFunc values
UgenFuncs == { "f1", "f2" }

\* raw parameters
RawParams ==
    { <<"a", "=", "1">>,
      <<"a", "=", "2">>,
      <<"b", "=", "1", "2">>,
      <<"=", "1">>,
      <<"a", "=">>,
      <<"a", "=", "x">>,
      <<"b", "a", "d">>,
      <<"%", "a">>,
      <<"a", "%">>,
      <<"a", "=", "1", "=", "2">>,
      <<"a", "=", "b", "=", "c">> }

RECURSIVE SeqsUpTo(_, _)
SeqsUpTo(S, n) ==
    IF n = 0 THEN { <<>> }
    ELSE LET shorter == SeqsUpTo(S, n - 1)
         IN  shorter \cup { Append(s, x) : s \in shorter, x \in S }

\* the params lists of the sequential specification
SeqParamLists == SeqsUpTo(RawParams, MaxParams)

\* the args lists of the specification with Run
RunParamLists ==
    SeqsUpTo({ <<"a", "=", "1">>, <<"a", "=", "x">>, <<"b", "a", "d">> },
             MaxParams)

\* the params lists of the concurrent specification
ConcParamLists == { << <<"a", "=", "1">> >>, << <<"b", "a", "d">> >> }

----------------------------------------------------------------------------
(* Strings, numbers, errors *)

Digits == { "0", "1", "2", "3", "4", "5", "6", "7", "8", "9" }

DigitVal(c) ==
    CASE c = "0" -> 0 [] c = "1" -> 1 [] c = "2" -> 2 [] c = "3" -> 3
      [] c = "4" -> 4 [] c = "5" -> 5 [] c = "6" -> 6 [] c = "7" -> 7
      [] c = "8" -> 8 [] c = "9" -> 9

\* the error value nil, and a non-nil error with the text of its Error()
Nil == [nil |-> TRUE, msg |-> <<>>]

Error(msg) == [nil |-> FALSE, msg |-> msg]

\* fmt.Sprintf(format) with no operands: text is copied; after a '%' the width
\* digits are skipped, then "%%" gives "%", another verb has no operand, and a
\* '%' with no verb after it is reported
RECURSIVE Sprintf(_)
Sprintf(format) ==
    IF format = <<>> THEN <<>>
    ELSE IF Head(format) # "%" THEN <<Head(format)>> \o Sprintf(Tail(format))
    ELSE LET RECURSIVE SkipDigits(_)
             SkipDigits(s) == IF s # <<>> /\ Head(s) \in Digits
                              THEN SkipDigits(Tail(s)) ELSE s
             rest == SkipDigits(Tail(format))
         IN  IF rest = <<>> THEN <<"%!(NOVERB)">>
             ELSE IF Head(rest) = "%" THEN <<"%">> \o Sprintf(Tail(rest))
             ELSE <<"%!", Head(rest), "(MISSING)">> \o Sprintf(Tail(rest))

\* errors.Errorf(format) of github.com/pkg/errors, called with no operands
Errorf(format) == Error(Sprintf(format))

\* a Wrap that makes an error of a nil err too
WrapNil(err, message) == Error(<<message, ": ">> \o err.msg)

\* errors.Wrap(err, message): nil for a nil err, else "message: err"
Wrap(err, message) ==
    IF err.nil THEN Nil ELSE Error(<<message, ": ">> \o err.msg)

ErrDupl == Error(<<"sound is already defined">>)

\* strings.Split(s, sep) for a one-character sep: every sep splits
RECURSIVE Split(_, _)
Split(s, sep) ==
    IF \A j \in 1..Len(s) : s[j] # sep THEN <<s>>
    ELSE LET k == CHOOSE j \in 1..Len(s) :
                      s[j] = sep /\ \A h \in 1..(j - 1) : s[h] # sep
         IN  <<SubSeq(s, 1, k - 1)>> \o Split(SubSeq(s, k + 1, Len(s)), sep)

\* the nearest float32 of a natural number (24-bit significand, ties to even)
RECURSIVE Ulp(_, _)
Ulp(v, u) == IF v < 16777216 * u THEN u ELSE Ulp(v, 2 * u)

Float32(v) ==
    LET u == Ulp(v, 1)
        q == v \div u
        r == v % u
    IN  IF 2 * r > u \/ (2 * r = u /\ q % 2 = 1) THEN (q + 1) * u ELSE q * u

RECURSIVE DecimalValue(_)
DecimalValue(s) ==
    IF s = <<>> THEN 0
    ELSE 10 * DecimalValue(SubSeq(s, 1, Len(s) - 1)) + DigitVal(s[Len(s)])

\* strconv.ParseFloat(s, 32) on the alphabet: a non-empty digit string is a
\* number, anything else is a *NumError (invalid syntax)
ParseFloat(s) ==
    IF s # <<>> /\ \A j \in 1..Len(s) : s[j] \in Digits
    THEN [v |-> Float32(DecimalValue(s)), err |-> Nil]
    ELSE [v |-> 0,
          err |-> Error(<<"strconv.ParseFloat: ", "parsing ", "\"">> \o s
                        \o <<"\"", ": ", "invalid syntax">>)]

----------------------------------------------------------------------------
(* Synthdefs and maps *)

\* sc.NewSynthdef(name, f): the *sc.Synthdef made from name and f
NewSynthdef(name, f) == [Name |-> name, F |-> f]

\* the nil *sc.Synthdef (the zero value a missing key reads as)
NoDef == [Name |-> <<>>, F |-> "nil"]

EmptyMap == [k \in {} |-> 0]

\* mp[key] = val of a Go map: inserts or overwrites
Put(mp, key, val) ==
    [k \in DOMAIN mp \cup {key} |-> IF k = key THEN val ELSE mp[k]]

----------------------------------------------------------------------------
(* Goroutines *)

Fresh ==
    [pc |-> "idle", op |-> "none", name |-> <<>>, f |-> "nil", params |-> <<>>,
     exists |-> FALSE, def |-> NoDef, ctls |-> EmptyMap, i |-> 0,
     param |-> <<>>, a |-> <<>>, seen |-> {}, out |-> <<>>, calls |-> <<>>,
     ret |-> Nil, args |-> <<>>, berr |-> Nil]

Init ==
    /\ m = EmptyMap
    /\ mu = [w |-> {}, r |-> {}]
    /\ th = [t \in Threads |-> Fresh]
    /\ hist = [n \in AllNames |-> <<>>]
    /\ opt = [list |-> FALSE, sound |-> <<>>]

\* Unsynchronized access to a Go map is a data race.  A goroutine is inside a
\* section that accesses app.m from the statement after its Lock/RLock to its
\* Unlock/RUnlock; it is writing from line 49 to the Unlock of line 50.
Writing(u) == th[u].pc \in { "Add49", "Add50" }

Accessing(u) ==
    th[u].pc \in { "Add45", "Add46", "Add49", "Add50", "List57", "Play67",
                   "Play69", "Play72" }

RaceRead(t) == \E u \in Threads \ {t} : Writing(u)

RaceWrite(t) == \E u \in Threads \ {t} : Accessing(u)

\* v, ok := app.m[n]: with a racing writer the read may miss the entry or see
\* it half inserted (present, the pointer not yet stored)
LookupOutcomes(t, n) ==
    LET actual == IF n \in DOMAIN m
                  THEN [exists |-> TRUE, def |-> m[n]]
                  ELSE [exists |-> FALSE, def |-> NoDef]
    IN  IF RaceRead(t)
        THEN { actual, [exists |-> FALSE, def |-> NoDef],
               [exists |-> TRUE, def |-> NoDef] }
        ELSE { actual }

\* app.m[n] = d: a racing write may be lost
StoreOutcomes(t, n, d) ==
    IF RaceWrite(t) THEN { Put(m, n, d), m } ELSE { Put(m, n, d) }

----------------------------------------------------------------------------
(* sync.RWMutex.  Lock takes the write side (which also turns new readers    *)
(* away) and then waits for the readers inside to leave; RLock waits while   *)
(* a goroutine owns the write side.                                          *)

Lock(t) == [mu EXCEPT !.w = @ \cup {t}]

Unlock(t) == [mu EXCEPT !.w = @ \ {t}]

RLock(t) == [mu EXCEPT !.r = @ \cup {t}]

RUnlock(t) == [mu EXCEPT !.r = @ \ {t}]

\* a call returns err: the goroutine is back in its caller, holding the result
Return(t, err) == [th[t] EXCEPT !.pc = "done", !.ret = err]

\* the caller goes on, to call again
Resume(t) ==
    /\ th[t].pc = "done"
    /\ th' = [th EXCEPT ![t] = Fresh]
    /\ UNCHANGED <<m, mu, hist, opt>>

----------------------------------------------------------------------------
(* func (app *App) Add(name string, f sc.UgenFunc) error *)

\* a call of Add with a name of names
AddCall(t, names) ==
    /\ th[t].pc = "idle"
    /\ \E n \in names, f \in UgenFuncs :
           th' = [th EXCEPT ![t] = [Fresh EXCEPT !.pc = "Add44", !.op = "Add",
                                                 !.name = n, !.f = f]]
    /\ UNCHANGED <<m, mu, hist, opt>>

\* an Add that does not lock
AddLockNone(t) ==
    /\ th[t].pc = "Add44"
    /\ th' = [th EXCEPT ![t].pc = "Add45"]
    /\ UNCHANGED <<m, mu, hist, opt>>

\* an Add that takes the read lock
AddRLock(t) ==
    /\ th[t].pc = "Add44"
    /\ mu.w = {}
    /\ mu' = RLock(t)
    /\ th' = [th EXCEPT ![t].pc = "Add45"]
    /\ UNCHANGED <<m, hist, opt>>

\* line 44, app.mu.Lock(): take the write side
AddLock(t) ==
    /\ th[t].pc = "Add44"
    /\ mu.w = {}
    /\ mu' = Lock(t)
    /\ th' = [th EXCEPT ![t].pc = "Add44w"]
    /\ UNCHANGED <<m, hist, opt>>

\* line 44, app.mu.Lock(): the readers have left
AddLockWait(t) ==
    /\ th[t].pc = "Add44w"
    /\ mu.r = {}
    /\ th' = [th EXCEPT ![t].pc = "Add45"]
    /\ UNCHANGED <<m, mu, hist, opt>>

\* a check that never finds the name
AddCheckBlind(t) ==
    /\ th[t].pc = "Add45"
    /\ th' = [th EXCEPT ![t].exists = FALSE, ![t].pc = "Add49"]
    /\ UNCHANGED <<m, mu, hist, opt>>

\* line 45: _, exists := app.m[name]
AddCheck(t) ==
    /\ th[t].pc = "Add45"
    /\ \E got \in LookupOutcomes(t, th[t].name) :
           th' = [th EXCEPT ![t].exists = got.exists,
                            ![t].pc = IF got.exists THEN "Add46" ELSE "Add49"]
    /\ UNCHANGED <<m, mu, hist, opt>>

\* a duplicate that returns ErrDupl with the lock held
AddDuplLocked(t) ==
    /\ th[t].pc = "Add46"
    /\ th' = [th EXCEPT ![t] = Return(t, ErrDupl)]
    /\ UNCHANGED <<m, mu, hist, opt>>

\* lines 46-47: app.mu.Unlock(); return ErrDupl
AddDupl(t) ==
    /\ th[t].pc = "Add46"
    /\ mu' = Unlock(t)
    /\ th' = [th EXCEPT ![t] = Return(t, ErrDupl)]
    /\ UNCHANGED <<m, hist, opt>>

\* an insertion into a map made anew, the entries of app.m being lost
AddInsertFresh(t) ==
    /\ th[t].pc = "Add49"
    /\ m' = Put(EmptyMap, th[t].name, NewSynthdef(th[t].name, th[t].f))
    /\ th' = [th EXCEPT ![t].pc = "Add50"]
    /\ UNCHANGED <<mu, hist, opt>>

\* line 49: app.m[name] = sc.NewSynthdef(name, f)
AddInsert(t) ==
    /\ th[t].pc = "Add49"
    /\ m' \in StoreOutcomes(t, th[t].name, NewSynthdef(th[t].name, th[t].f))
    /\ th' = [th EXCEPT ![t].pc = "Add50"]
    /\ UNCHANGED <<mu, hist, opt>>

\* an Add that returns nil with the lock held
AddDoneLocked(t) ==
    /\ th[t].pc = "Add50"
    /\ th' = [th EXCEPT ![t] = Return(t, Nil)]
    /\ hist' = [hist EXCEPT ![th[t].name] =
                    IF Len(@) < 2 THEN Append(@, th[t].f) ELSE @]
    /\ UNCHANGED <<m, mu, opt>>

\* lines 50-51: app.mu.Unlock(); return nil
AddDone(t) ==
    /\ th[t].pc = "Add50"
    /\ mu' = Unlock(t)
    /\ th' = [th EXCEPT ![t] = Return(t, Nil)]
    /\ hist' = [hist EXCEPT ![th[t].name] =
                    IF Len(@) < 2 THEN Append(@, th[t].f) ELSE @]
    /\ UNCHANGED <<m, opt>>

----------------------------------------------------------------------------
(* func (app *App) List() *)

ListCall(t) ==
    /\ th[t].pc = "idle"
    /\ th' = [th EXCEPT ![t] = [Fresh EXCEPT !.pc = "List56", !.op = "List"]]
    /\ UNCHANGED <<m, mu, hist, opt>>

\* line 56: app.mu.RLock()
ListRLock(t) ==
    /\ th[t].pc = "List56"
    /\ mu.w = {}
    /\ mu' = RLock(t)
    /\ th' = [th EXCEPT ![t].pc = "List57"]
    /\ UNCHANGED <<m, hist, opt>>

\* lines 57-58: one iteration of for name := range app.m { fmt.Println(name) };
\* the order is the map's; with a racing writer an entry may be skipped
ListPrint(t) ==
    /\ th[t].pc = "List57"
    /\ \E n \in DOMAIN m \ th[t].seen :
       \E line \in (IF RaceRead(t) THEN { <<>>, <<n>> } ELSE { <<n>> }) :
           th' = [th EXCEPT ![t].seen = @ \cup {n}, ![t].out = @ \o line]
    /\ UNCHANGED <<m, mu, hist, opt>>

\* a range that may stop before the last entry
ListDoneEarly(t) ==
    /\ th[t].pc = "List57"
    /\ mu' = RUnlock(t)
    /\ th' = [th EXCEPT ![t] = Return(t, Nil)]
    /\ UNCHANGED <<m, hist, opt>>

\* lines 57, 60-61: the range is over; app.mu.RUnlock()
ListDone(t) ==
    /\ th[t].pc = "List57"
    /\ DOMAIN m \ th[t].seen = {}
    /\ mu' = RUnlock(t)
    /\ th' = [th EXCEPT ![t] = Return(t, Nil)]
    /\ UNCHANGED <<m, hist, opt>>

----------------------------------------------------------------------------
(* func (app *App) Play(sound string, params []string) error *)

\* scid.Play(def, ctls): the backend succeeds or fails
BackendResults == { Nil, Error(<<"scid: ", "play failed">>) }

\* a call of Play with a sound of names and a params of plists
PlayCall(t, names, plists) ==
    /\ th[t].pc = "idle"
    /\ \E sound \in names, params \in plists :
           th' = [th EXCEPT ![t] = [Fresh EXCEPT !.pc = "Play66", !.op = "Play",
                                                 !.name = sound,
                                                 !.params = params]]
    /\ UNCHANGED <<m, mu, hist, opt>>

\* a Play that looks the sound up without the read lock
PlayRLockNone(t) ==
    /\ th[t].pc = "Play66"
    /\ th' = [th EXCEPT ![t].pc = "Play67"]
    /\ UNCHANGED <<m, mu, hist, opt>>

\* line 66: app.mu.RLock()
PlayRLock(t) ==
    /\ th[t].pc = "Play66"
    /\ mu.w = {}
    /\ mu' = RLock(t)
    /\ th' = [th EXCEPT ![t].pc = "Play67"]
    /\ UNCHANGED <<m, hist, opt>>

\* a lookup that does not test exists before the parameters are parsed
PlayLookupLate(t) ==
    /\ th[t].pc = "Play67"
    /\ \E got \in LookupOutcomes(t, th[t].name) :
           th' = [th EXCEPT ![t].def = got.def, ![t].exists = got.exists,
                            ![t].pc = "Play72"]
    /\ UNCHANGED <<m, mu, hist, opt>>

\* lines 67-68: def, exists := app.m[sound]; if !exists
PlayLookup(t) ==
    /\ th[t].pc = "Play67"
    /\ \E got \in LookupOutcomes(t, th[t].name) :
           th' = [th EXCEPT ![t].def = got.def, ![t].exists = got.exists,
                            ![t].pc = IF got.exists THEN "Play72" ELSE "Play69"]
    /\ UNCHANGED <<m, mu, hist, opt>>

\* lines 69-70: app.mu.RUnlock(); return errors.Errorf("unrecognized sound: " + sound)
PlayNotFound(t) ==
    /\ th[t].pc = "Play69"
    /\ mu' = RUnlock(t)
    /\ th' = [th EXCEPT ![t] =
                  Return(t, Errorf(<<"unrecognized sound: ">> \o th[t].name))]
    /\ UNCHANGED <<m, hist, opt>>

\* a Play that keeps the read lock while it parses and plays
PlayRUnlockLate(t) ==
    /\ th[t].pc = "Play72"
    /\ th' = [th EXCEPT ![t].ctls = EmptyMap, ![t].i = 0, ![t].pc = "Play75"]
    /\ UNCHANGED <<m, mu, hist, opt>>

\* lines 72, 74: app.mu.RUnlock(); ctls := map[string]float32{}
PlayRUnlock(t) ==
    /\ th[t].pc = "Play72"
    /\ mu' = RUnlock(t)
    /\ th' = [th EXCEPT ![t].ctls = EmptyMap, ![t].i = 0, ![t].pc = "Play75"]
    /\ UNCHANGED <<m, hist, opt>>

\* a loop that keeps the first value of a key
PlayParamFirstWins(t) ==
    /\ th[t].pc = "Play75"
    /\ th[t].i < Len(th[t].params)
    /\ LET param == th[t].params[th[t].i + 1]
           a == Split(param, "=")
           pf == ParseFloat(a[2])
           now == [th[t] EXCEPT !.param = param, !.a = a]
       IN  th' = [th EXCEPT ![t] =
                IF Len(a) < 2
                THEN [now EXCEPT !.pc = "done",
                          !.ret = Errorf(<<"could not parse key=value from ">>
                                         \o param)]
                ELSE IF ~pf.err.nil
                THEN [now EXCEPT !.pc = "done",
                          !.ret = Wrap(pf.err, "parsing control value")]
                ELSE [now EXCEPT !.i = @ + 1,
                          !.ctls = IF a[1] \in DOMAIN @ THEN @
                                   ELSE Put(@, a[1], Float32(pf.v))]]
    /\ UNCHANGED <<m, mu, hist, opt>>

\* a loop that skips a parameter it cannot parse
PlayParamSkipBad(t) ==
    /\ th[t].pc = "Play75"
    /\ th[t].i < Len(th[t].params)
    /\ LET param == th[t].params[th[t].i + 1]
           a == Split(param, "=")
           pf == ParseFloat(a[2])
           now == [th[t] EXCEPT !.param = param, !.a = a, !.i = @ + 1]
       IN  th' = [th EXCEPT ![t] =
                IF Len(a) < 2 \/ ~pf.err.nil THEN now
                ELSE [now EXCEPT !.ctls = Put(@, a[1], Float32(pf.v))]]
    /\ UNCHANGED <<m, mu, hist, opt>>

\* lines 75-85: one iteration of for _, param := range params
PlayParam(t) ==
    /\ th[t].pc = "Play75"
    /\ th[t].i < Len(th[t].params)
    /\ LET param == th[t].params[th[t].i + 1]
           a == Split(param, "=")
           pf == ParseFloat(a[2])
           now == [th[t] EXCEPT !.param = param, !.a = a]
       IN  th' = [th EXCEPT ![t] =
                IF Len(a) < 2
                THEN [now EXCEPT !.pc = "done",
                          !.ret = Errorf(<<"could not parse key=value from ">>
                                         \o param)]
                ELSE IF ~pf.err.nil
                THEN [now EXCEPT !.pc = "done",
                          !.ret = Wrap(pf.err, "parsing control value")]
                ELSE [now EXCEPT !.i = @ + 1,
                          !.ctls = Put(@, a[1], Float32(pf.v))]]
    /\ UNCHANGED <<m, mu, hist, opt>>

\* a backend call that is tried again when it fails
PlayBackendRetry(t) ==
    /\ th[t].pc = "Play75"
    /\ th[t].i = Len(th[t].params)
    /\ \E e1, e2 \in BackendResults :
           LET call == [def |-> th[t].def, ctls |-> th[t].ctls]
           IN  th' = [th EXCEPT ![t] =
                        IF e1.nil
                        THEN [Return(t, Nil) EXCEPT !.calls = Append(@, call)]
                        ELSE [Return(t, Wrap(e2, "playing synthdef")) EXCEPT
                                  !.calls = Append(Append(@, call), call)]]
    /\ UNCHANGED <<m, mu, hist, opt>>

\* line 86: return errors.Wrap(scid.Play(def, ctls), "playing synthdef")
PlayBackend(t) ==
    /\ th[t].pc = "Play75"
    /\ th[t].i = Len(th[t].params)
    /\ \E e \in BackendResults :
           th' = [th EXCEPT ![t] =
                    [Return(t, Wrap(e, "playing synthdef")) EXCEPT
                        !.berr = e,
                        !.calls = Append(@, [def |-> th[t].def,
                                             ctls |-> th[t].ctls])]]
    /\ UNCHANGED <<m, mu, hist, opt>>

----------------------------------------------------------------------------
(* func (app *App) Run(args []string) error *)

\* the flag set of New, parsing a command line: -l sets app.list, -s SOUND
\* sets app.sound (lines 36-37); no call is in progress
ParseFlags(names) ==
    /\ \A t \in Threads : th[t].pc = "idle"
    /\ \E l \in BOOLEAN, s \in names \cup { <<>> } :
           opt' = [list |-> l, sound |-> s]
    /\ UNCHANGED <<m, mu, th, hist>>

\* a Run that plays whatever app.list is
RunCallPlays(t, plists) ==
    /\ th[t].pc = "idle"
    /\ \E args \in plists :
           th' = [th EXCEPT ![t] =
                    [Fresh EXCEPT !.op = "Run", !.args = args,
                                  !.pc = "Play66", !.name = opt.sound,
                                  !.params = args]]
    /\ UNCHANGED <<m, mu, hist, opt>>

\* lines 91-96: a call of Run with an args of plists; if app.list, Run calls
\* app.List() and returns nil when it returns, else it returns what
\* app.Play(app.sound, args) returns
RunCall(t, plists) ==
    /\ th[t].pc = "idle"
    /\ \E args \in plists :
           th' = [th EXCEPT ![t] =
                    IF opt.list
                    THEN [Fresh EXCEPT !.op = "Run", !.args = args,
                                       !.pc = "List56"]
                    ELSE [Fresh EXCEPT !.op = "Run", !.args = args,
                                       !.pc = "Play66", !.name = opt.sound,
                                       !.params = args]]
    /\ UNCHANGED <<m, mu, hist, opt>>

----------------------------------------------------------------------------
(* Specifications *)

Step(t, names, plists) ==
    \/ AddCall(t, names)
    \/ AddLock(t)
    \/ AddLockWait(t)
    \/ AddCheck(t)
    \/ AddDupl(t)
    \/ AddInsert(t)
    \/ AddDone(t)
    \/ ListCall(t)
    \/ ListRLock(t)
    \/ ListPrint(t)
    \/ ListDone(t)
    \/ PlayCall(t, names, plists)
    \/ PlayRLock(t)
    \/ PlayLookup(t)
    \/ PlayNotFound(t)
    \/ PlayRUnlock(t)
    \/ PlayParam(t)
    \/ PlayBackend(t)
    \/ Resume(t)

\* any number of calls by concurrent goroutines
Next == \E t \in Threads : Step(t, Names, ConcParamLists)

Spec == Init /\ [][Next]_vars

\* any number of calls, one after the other, by one goroutine
NextSeq == Step(1, Names, SeqParamLists)

SpecSeq == Init /\ [][NextSeq]_vars

\* a command line is parsed and one goroutine calls Add, List, Play and Run,
\* one after the other
NextRun ==
    \/ Step(1, Names, RunParamLists)
    \/ ParseFlags(Names)
    \/ RunCall(1, RunParamLists)

SpecRun == Init /\ [][NextRun]_vars

\* a command line is parsed while no call is in progress, and concurrent
\* goroutines call Add, List, Play and Run with one sound name
OneName == { <<"k">> }

NextAll ==
    \/ ParseFlags(OneName)
    \/ \E t \in Threads :
           \/ Step(t, OneName, ConcParamLists)
           \/ RunCall(t, ConcParamLists)

SpecAll == Init /\ [][NextAll]_vars

\* the steps a goroutine inside a call takes when it is scheduled, the
\* acquisitions of app.mu apart: statements that do not block, fmt.Println
\* and the backend call, which return, and the end of Lock's wait for the
\* readers, which lasts once the readers have left
Running(t) ==
    \/ AddLockWait(t) \/ AddCheck(t) \/ AddDupl(t) \/ AddInsert(t) \/ AddDone(t)
    \/ ListPrint(t) \/ ListDone(t)
    \/ PlayLookup(t) \/ PlayNotFound(t) \/ PlayRUnlock(t) \/ PlayParam(t)
    \/ PlayBackend(t)

\* lines 44, 56, 66: t, waiting at Lock or RLock, gets the lock
Acquires(t) == AddLock(t) \/ ListRLock(t) \/ PlayRLock(t)

\* a fair scheduler and a fair lock: a goroutine that can run does, and one
\* that waits at Lock or RLock gets the lock if it is free again and again
\* (sync.Mutex hands the lock to a starving waiter; RWMutex.Unlock lets the
\* waiting readers in); callers need not call
Fairness == \A t \in Threads : WF_vars(Running(t)) /\ SF_vars(Acquires(t))

SpecFair == SpecAll /\ Fairness

\* NThreads goroutines call Add once each, at the same time, with names of
\* ScenNames; when all have returned, one of them calls List
ScenAdd(t) ==
    /\ th[t].op = "none"
    /\ AddCall(t, ScenNames)

ScenList(t) ==
    /\ \A u \in Threads : th[u].pc = "done" /\ th[u].op = "Add"
    /\ th' = [th EXCEPT ![t].pc = "List56", ![t].op = "List"]
    /\ UNCHANGED <<m, mu, hist, opt>>

NextAdds ==
    \E t \in Threads :
        \/ ScenAdd(t)
        \/ AddLock(t)
        \/ AddLockWait(t)
        \/ AddCheck(t)
        \/ AddDupl(t)
        \/ AddInsert(t)
        \/ AddDone(t)
        \/ ScenList(t)
        \/ ListRLock(t)
        \/ ListPrint(t)
        \/ ListDone(t)

SpecAdds == Init /\ [][NextAdds]_vars

----------------------------------------------------------------------------
(* Helpers of the properties *)

Range(s) == { s[j] : j \in 1..Len(s) }

\* t has returned from a call of op
Returned(t, op) == th[t].pc = "done" /\ th[t].op = op

\* the step in which t returns from a call of op
Returns(t, op) == th[t].op = op /\ th[t].pc # "done" /\ th'[t].pc = "done"

\* the names for which an Add has returned nil
Registered == { n \in AllNames : hist[n] # <<>> }

----------------------------------------------------------------------------
\* C1: once an Add(n, f) has returned nil, every Add(n, f') that returns
\* afterwards returns ErrDupl and leaves the registry as it was; the registry
\* holds, under n, the synthdef of the Add that succeeded.
C1_DuplicateAddRejected ==
    [][\A t \in Threads :
         /\ \A n \in Registered :
                n \in DOMAIN m /\ m[n] = NewSynthdef(n, hist[n][1])
         /\ (Returns(t, "Add") /\ th[t].name \in Registered)
                => (th'[t].ret = ErrDupl /\ m' = m)]_vars

\* an Add with another f has been rejected, and the first synthdef is stored
C1_Witness ==
    \E t \in Threads :
        /\ Returned(t, "Add")
        /\ th[t].ret = ErrDupl
        /\ th[t].name \in DOMAIN m
        /\ m[th[t].name].F # th[t].f

----------------------------------------------------------------------------
\* the names of the goroutines' Add calls are pairwise distinct
DistinctNames ==
    \A t, u \in Threads : t # u => th[t].name # th[u].name

\* C8: of NThreads concurrent Add calls on the empty registry, every call
\* whose name no other call has returns nil; when the names are pairwise
\* distinct and all have returned, a List prints all NThreads names.
C8_ConcurrentAddsAllVisible ==
    \A t \in Threads :
        /\ (Returned(t, "Add") /\ \A u \in Threads \ {t} : th[u].name # th[t].name)
               => th[t].ret = Nil
        /\ (Returned(t, "List") /\ DistinctNames)
               => /\ \A u \in Threads \ {t} : th[u].ret = Nil
                  /\ Range(th[t].out) = { th[u].name : u \in Threads }
                  /\ Len(th[t].out) = NThreads

\* the List after NThreads concurrent Adds of distinct names has returned
C8_Witness ==
    \E t \in Threads :
        /\ Returned(t, "List")
        /\ DistinctNames
        /\ Len(th[t].out) = NThreads

----------------------------------------------------------------------------
\* t holds the read lock and is reading the registry
Reading(t) == th[t].pc \in { "List57", "Play67", "Play69", "Play72" }

\* u is between the Lock and the Unlock of Add
InAdd(u) == th[u].pc \in { "Add45", "Add46", "Add49", "Add50" }

\* C9: a List or a Play lookup never runs while an Add is between its Lock
\* and its Unlock; a name that Play finds is bound to the synthdef of an Add
\* that has returned nil, a name that List prints is one of an Add that has
\* returned nil; no two Adds of one name both return nil.
C9_AtomicAdd ==
    /\ \A t, u \in Threads : ~(Reading(t) /\ InAdd(u))
    /\ \A t \in Threads :
           (th[t].op = "Play" /\ th[t].exists)
               => /\ th[t].name \in Registered
                  /\ th[t].def = NewSynthdef(th[t].name, hist[th[t].name][1])
    /\ \A t \in Threads :
           th[t].op = "List" => Range(th[t].out) \subseteq Registered
    /\ \A n \in AllNames : Len(hist[n]) <= 1

\* a Play has looked n up, not found it and still holds the read lock, while
\* an Add of n waits in Lock
C9_Witness ==
    \E t, u \in Threads :
        /\ th[t].pc = "Play69"
        /\ th[u].pc = "Add44w"
        /\ th[u].name = th[t].name

----------------------------------------------------------------------------
(* Raw parameters, read without Split *)

HasEq(p) == "=" \in Range(p)

\* the text before the first '=' (all of it when there is none)
RECURSIVE UpToEq(_)
UpToEq(s) ==
    IF s = <<>> \/ Head(s) = "=" THEN <<>> ELSE <<Head(s)>> \o UpToEq(Tail(s))

\* everything after the first '='
AfterEq(s) == SubSeq(s, Len(UpToEq(s)) + 2, Len(s))

\* the text between the first '=' and the second (or the end)
ValueSegment(p) == UpToEq(AfterEq(p))

IsNumber(s) == s # <<>> /\ \A j \in 1..Len(s) : s[j] \in Digits

\* the parameter has a '=' and its value segment is a number
Parses(p) == HasEq(p) /\ IsNumber(ValueSegment(p))

\* the first parameter of ps that does not parse
FirstBad(ps) ==
    ps[CHOOSE j \in 1..Len(ps) :
           ~Parses(ps[j]) /\ \A h \in 1..(j - 1) : Parses(ps[h])]

IsUnrecognized(err) == ~err.nil /\ Head(err.msg) = "unrecognized sound: "

IsMalformed(err) == ~err.nil /\ Head(err.msg) = "could not parse key=value from "

IsInvalidNumber(err) == ~err.nil /\ Head(err.msg) = "parsing control value"

IsPlayback(err) == ~err.nil /\ Head(err.msg) = "playing synthdef"

----------------------------------------------------------------------------
\* C2: a Play of a name that is not registered returns the unrecognized-sound
\* error, whatever its params, without having looked at a parameter and
\* without a call of the backend.
C2_NameBeforeParams ==
    \A t \in Threads :
        (Returned(t, "Play") /\ th[t].name \notin DOMAIN m)
            => /\ IsUnrecognized(th[t].ret)
               /\ th[t].param = <<>> /\ th[t].a = <<>> /\ th[t].i = 0
               /\ th[t].calls = <<>>

\* a Play of an unregistered name with a parameter that does not parse has
\* returned
C2_Witness ==
    \E t \in Threads :
        /\ Returned(t, "Play")
        /\ th[t].name \notin DOMAIN m
        /\ \E j \in 1..Len(th[t].params) : ~Parses(th[t].params[j])
        /\ IsUnrecognized(th[t].ret)

----------------------------------------------------------------------------
\* C3: a raw parameter is split in two at its first '=': the key is the text
\* before it and the value string everything after it, so that a Play of a
\* registered name with a parameter whose text after the first '=' is no
\* number fails without a call of the backend.
C3_SplitAtFirstEq ==
    \A t \in Threads :
        /\ (th[t].op = "Play" /\ HasEq(th[t].param))
               => th[t].a = <<UpToEq(th[t].param), AfterEq(th[t].param)>>
        /\ (Returned(t, "Play") /\ th[t].exists
                /\ \E j \in 1..Len(th[t].params) :
                       /\ HasEq(th[t].params[j])
                       /\ ~IsNumber(AfterEq(th[t].params[j])))
               => (~th[t].ret.nil /\ th[t].calls = <<>>)

----------------------------------------------------------------------------
\* C4: no call invokes the backend more than once; a Play that returns nil or
\* the backend's error has invoked it exactly once, with the synthdef of the
\* Add of its name that returned nil and with the control map built from all
\* of its params; Add, List and a Play that fails with the unrecognized-sound
\* or a parameter error have not invoked it.
C4_BackendCalledOnce ==
    \A t \in Threads :
        /\ Len(th[t].calls) <= 1
        /\ (Returned(t, "Play") /\ (th[t].ret.nil \/ IsPlayback(th[t].ret)))
               => Len(th[t].calls) = 1
        /\ th[t].calls # <<>>
               => /\ th[t].op = "Play"
                  /\ th[t].name \in Registered
                  /\ th[t].calls[1].def
                         = NewSynthdef(th[t].name, hist[th[t].name][1])
                  /\ th[t].calls[1].def = m[th[t].name]
                  /\ th[t].calls[1].ctls = th[t].ctls
                  /\ th[t].i = Len(th[t].params)
        /\ (Returned(t, "Add") \/ Returned(t, "List")) => th[t].calls = <<>>
        /\ (Returned(t, "Play")
                /\ (IsUnrecognized(th[t].ret) \/ IsMalformed(th[t].ret)
                        \/ IsInvalidNumber(th[t].ret)))
               => th[t].calls = <<>>

\* a Play with a parameter has returned the backend's error, the backend
\* having been invoked
C4_Witness ==
    \E t \in Threads :
        /\ Returned(t, "Play")
        /\ IsPlayback(th[t].ret)
        /\ th[t].params # <<>>
        /\ Len(th[t].calls) = 1

----------------------------------------------------------------------------
\* C5: a Play never changes the registry, and a Play of a registered name
\* with a parameter that has no '=' or whose value segment is no number
\* returns an error without any call of the backend.
C5_NoPartialResults ==
    [][\A t \in Threads :
         (th[t].op = "Play" /\ th[t].pc # "done")
             => /\ m' = m
                /\ (th'[t].pc = "done" /\ th[t].exists
                        /\ \E j \in 1..Len(th[t].params) :
                               ~Parses(th[t].params[j]))
                       => (~th'[t].ret.nil /\ th'[t].calls = <<>>)]_vars

\* a Play of a registered name has failed at its second parameter, the first
\* one having been put in the control map
C5_Witness ==
    \E t \in Threads :
        /\ Returned(t, "Play")
        /\ th[t].exists
        /\ Len(th[t].params) >= 2
        /\ Parses(th[t].params[1])
        /\ ~Parses(th[t].params[2])
        /\ DOMAIN th[t].ctls # {}
        /\ ~th[t].ret.nil

----------------------------------------------------------------------------
\* C6: when a parameter of a Play of a registered name does not parse, the
\* error is that of the first such parameter; if that one has no '=', the
\* error is the malformed-parameter error and its text ends in exactly that
\* parameter.
C6_MalformedParamNamed ==
    \A t \in Threads :
        (Returned(t, "Play") /\ th[t].exists
             /\ \E j \in 1..Len(th[t].params) : ~Parses(th[t].params[j]))
            => LET p == FirstBad(th[t].params)
               IN  IF HasEq(p) THEN IsInvalidNumber(th[t].ret)
                   ELSE th[t].ret
                            = Error(<<"could not parse key=value from ">> \o p)

----------------------------------------------------------------------------
\* the last parameter of ps with key k
LastWith(ps, k) ==
    ps[CHOOSE j \in 1..Len(ps) :
           UpToEq(ps[j]) = k /\ \A h \in (j + 1)..Len(ps) : UpToEq(ps[h]) # k]

\* C7: the control map passed to the backend has exactly the keys of the
\* params (the text before the first '=', as it is), each with the number of
\* the value segment of the last parameter that has the key.
C7_LastOccurrenceWins ==
    \A t \in Threads :
        th[t].calls # <<>>
            => LET ctls == th[t].calls[1].ctls
                   ps == th[t].params
               IN  /\ DOMAIN ctls = { UpToEq(ps[j]) : j \in 1..Len(ps) }
                   /\ \A k \in DOMAIN ctls :
                          ctls[k] = DecimalValue(ValueSegment(LastWith(ps, k)))

\* the backend has been invoked for params with one key twice, with two values
C7_Witness ==
    \E t \in Threads :
        /\ th[t].calls # <<>>
        /\ Len(th[t].params) >= 2
        /\ UpToEq(th[t].params[1]) = UpToEq(th[t].params[2])
        /\ ValueSegment(th[t].params[1]) # ValueSegment(th[t].params[2])

----------------------------------------------------------------------------
\* C10: a List, run with no other call in progress, prints each name for
\* which an Add has returned nil once, and no other name.
C10_ListComplete ==
    \A t \in Threads :
        Returned(t, "List")
            => /\ Range(th[t].out) = Registered
               /\ Len(th[t].out) = Cardinality(Registered)

\* a List has returned after two Adds that returned nil
C10_Witness ==
    \E t \in Threads :
        /\ Returned(t, "List")
        /\ Cardinality(Registered) = 2
        /\ Len(th[t].out) = 2

----------------------------------------------------------------------------
\* what Play(sound, params) returns and hands to the backend, from the
\* registry and the parameters: ret is one of rets, calls is calls
PlayOutcomes(sound, params) ==
    IF sound \notin DOMAIN m
    THEN { [ret |-> Errorf(<<"unrecognized sound: ">> \o sound),
            calls |-> <<>>] }
    ELSE IF \E j \in 1..Len(params) : ~Parses(params[j])
    THEN LET p == FirstBad(params)
         IN  { [ret |-> IF HasEq(p)
                        THEN Wrap(ParseFloat(ValueSegment(p)).err,
                                  "parsing control value")
                        ELSE Errorf(<<"could not parse key=value from ">> \o p),
                calls |-> <<>>] }
    ELSE { [ret |-> Wrap(e, "playing synthdef"),
            calls |-> << [def |-> m[sound],
                          ctls |-> [k \in { UpToEq(params[j]) :
                                              j \in 1..Len(params) } |->
                                      DecimalValue(ValueSegment(
                                          LastWith(params, k)))]] >>]
           : e \in BackendResults }

\* C11: with app.list set, Run takes the steps of List only, returns nil with
\* every registered name printed, and neither reads app.sound, nor parses
\* args, nor invokes the backend; with app.list not set, Run returns what
\* Play(app.sound, args) returns, with the same call of the backend.
C11_RunDispatch ==
    \A t \in Threads :
        th[t].op = "Run"
            => IF opt.list
               THEN /\ th[t].pc \in { "List56", "List57", "done" }
                    /\ th[t].name = <<>> /\ th[t].params = <<>>
                    /\ th[t].param = <<>> /\ th[t].a = <<>>
                    /\ ~th[t].exists /\ th[t].calls = <<>>
                    /\ th[t].ret = Nil
                    /\ th[t].pc = "done"
                           => /\ Range(th[t].out) = DOMAIN m
                              /\ Len(th[t].out) = Cardinality(DOMAIN m)
               ELSE /\ th[t].pc \notin { "List56", "List57" }
                    /\ th[t].out = <<>>
                    /\ th[t].pc = "done"
                           => [ret |-> th[t].ret, calls |-> th[t].calls]
                                  \in PlayOutcomes(opt.sound, th[t].args)

\* a Run with app.list set has returned, the registry not being empty,
\* app.sound not being registered and args having a parameter that does not
\* parse
C11_Witness ==
    \E t \in Threads :
        /\ Returned(t, "Run")
        /\ opt.list
        /\ DOMAIN m # {}
        /\ opt.sound \notin DOMAIN m
        /\ \E j \in 1..Len(th[t].args) : ~Parses(th[t].args[j])

----------------------------------------------------------------------------
\* C12: Play returns nil exactly when its name is registered, every
\* parameter parses and the backend, invoked, returns nil; when the backend
\* returns an error Play returns that error, wrapped; when the backend
\* returns nil Play returns nil.
C12_NoErrorSwallowed ==
    \A t \in Threads :
        Returned(t, "Play")
            => /\ th[t].ret.nil
                      <=> /\ th[t].name \in DOMAIN m
                          /\ \A j \in 1..Len(th[t].params) :
                                 Parses(th[t].params[j])
                          /\ th[t].calls # <<>>
                          /\ th[t].berr.nil
               /\ (th[t].calls # <<>> /\ ~th[t].berr.nil)
                      => th[t].ret
                             = Error(<<"playing synthdef", ": ">>
                                     \o th[t].berr.msg)
               /\ (th[t].calls # <<>> /\ th[t].berr.nil) => th[t].ret = Nil
               /\ th[t].calls = <<>> => ~th[t].ret.nil

\* a Play with a parameter has returned nil, the backend having returned nil
C12_Witness ==
    \E t \in Threads :
        /\ Returned(t, "Play")
        /\ th[t].params # <<>>
        /\ th[t].calls # <<>>
        /\ th[t].berr.nil
        /\ th[t].ret.nil

----------------------------------------------------------------------------
\* t is at fmt.Println(name) of List, line 58, with a name to print
AtPrintln(t) == th[t].pc = "List57" /\ DOMAIN m \ th[t].seen # {}

\* t is at scid.Play(def, ctls) of Play, line 86
AtBackend(t) == th[t].pc = "Play75" /\ th[t].i = Len(th[t].params)

\* t holds app.mu, as a reader or as the writer
Holds(t) == t \in mu.r \/ t \in mu.w

\* C13: a goroutine that writes a name to standard output in List, or calls
\* the backend in Play, holds neither the shared nor the exclusive lock.
C13_NoIOUnderLock ==
    \A t \in Threads : (AtPrintln(t) \/ AtBackend(t)) => ~Holds(t)

\* the part of C13 that is about Play
PlayBackendUnlocked == \A t \in Threads : AtBackend(t) => ~Holds(t)

----------------------------------------------------------------------------
\* t reads app.m in its next step: lines 45, 57, 67
ReadsMap(t) == th[t].pc \in { "Add45", "List57", "Play67" }

\* t writes app.m in its next step: line 49
WritesMap(t) == th[t].pc = "Add49"

\* C14: a goroutine between the Lock and the Unlock of Add is the one owner
\* of the write side and no goroutine holds the read side; the goroutines
\* that hold the read side are those between the RLock and the RUnlock of
\* List and of Play, and a reader is let in whenever no goroutine owns the
\* write side, other readers being inside or not; app.m is written only
\* inside Lock/Unlock and read only inside Lock/Unlock or RLock/RUnlock, so
\* no access races with a write.
C14_LockDiscipline ==
    /\ \A t \in Threads :
           InAdd(t) => /\ mu.w = {t}
                       /\ mu.r = {}
                       /\ \A u \in Threads \ {t} : ~InAdd(u) /\ ~Reading(u)
    /\ mu.r = { t \in Threads : Reading(t) }
    /\ mu.w = { t \in Threads : InAdd(t) \/ th[t].pc = "Add44w" }
    /\ Cardinality(mu.w) <= 1
    /\ \A t \in Threads :
           /\ (th[t].pc = "List56" /\ mu.w = {}) => ENABLED ListRLock(t)
           /\ (th[t].pc = "Play66" /\ mu.w = {}) => ENABLED PlayRLock(t)
    /\ \A t \in Threads :
           /\ WritesMap(t) => InAdd(t) /\ ~RaceWrite(t)
           /\ ReadsMap(t) => (InAdd(t) \/ Reading(t)) /\ ~RaceRead(t)

\* a List and a Play lookup hold the read side together, the registry not
\* being empty
C14_Witness ==
    \E t, u \in Threads :
        /\ th[t].pc = "List57"
        /\ th[u].pc = "Play67"
        /\ mu.r = {t, u}
        /\ DOMAIN m # {}

----------------------------------------------------------------------------
\* every entry of app.m is kept as it is
Kept == \A n \in DOMAIN m : n \in DOMAIN m' /\ m'[n] = m[n]

\* t, in an Add that has not found its name, inserts it: app.m gains the one
\* entry name -> NewSynthdef(name, f)
Inserts(t) ==
    /\ th[t].op = "Add"
    /\ th[t].pc = "Add49" /\ th'[t].pc = "Add50"
    /\ ~th[t].exists
    /\ th[t].name \notin DOMAIN m
    /\ m' = Put(m, th[t].name, NewSynthdef(th[t].name, th[t].f))
    /\ Cardinality(DOMAIN m') = Cardinality(DOMAIN m) + 1

\* C15: the registry is empty after New; no step removes a name or binds a
\* name to another synthdef; a step that changes the registry is the
\* insertion of an Add, adds exactly one entry, and that Add returns nil; an
\* Add that returns ErrDupl has found its name and inserted nothing; no step
\* of List, of Play or of Run changes the registry.
C15_RegistryOnlyGrows ==
    /\ m = EmptyMap
    /\ [][/\ Kept
          /\ m' # m => \E t \in Threads : Inserts(t)
          /\ \A t \in Threads :
                 /\ (Returns(t, "Add") /\ th[t].pc = "Add50")
                        => th'[t].ret = Nil /\ m' = m
                 /\ (Returns(t, "Add") /\ ~th'[t].ret.nil)
                        => th[t].exists /\ th[t].pc = "Add46" /\ m' = m
                 /\ (th[t].op \in { "List", "Play", "Run" }
                         /\ th'[t] # th[t]) => m' = m]_vars

\* an Add has returned ErrDupl, the registry holding two names
C15_Witness ==
    /\ Cardinality(DOMAIN m) = 2
    /\ \E t \in Threads : Returned(t, "Add") /\ th[t].ret = ErrDupl

----------------------------------------------------------------------------
\* t is in no call: it has not called yet, or its call has returned
Outside(t) == th[t].pc \in { "idle", "done" }

\* C17: a goroutine whose Add, List or Play has returned, with nil, ErrDupl,
\* an unrecognized sound, a parameter error or a backend error, holds app.mu
\* neither as a reader nor as the writer; the write side is owned only by a
\* goroutine inside Add and the read side is held only by goroutines inside
\* List or Play; when no call is in progress the lock is free.
C17_ReturnReleasesLock ==
    /\ \A t \in Threads : Outside(t) => ~Holds(t)
    /\ \A t \in mu.w : th[t].op = "Add"
    /\ \A t \in mu.r : th[t].op \in { "List", "Play" }
    /\ (\A t \in Threads : Outside(t)) => mu = [w |-> {}, r |-> {}]

\* every goroutine has returned, one from an Add with ErrDupl and one from a
\* Play with an error of the backend, and the lock is free
C17_Witness ==
    /\ \A t \in Threads : th[t].pc = "done"
    /\ \E t \in Threads : th[t].op = "Add" /\ th[t].ret = ErrDupl
    /\ \E t \in Threads :
           th[t].op = "Play" /\ th[t].calls # <<>> /\ ~th[t].ret.nil
    /\ mu = [w |-> {}, r |-> {}]

----------------------------------------------------------------------------
\* t is in Play past its lookup: in the loop of lines 75-85 or at line 86
PastLookup(t) == th[t].pc = "Play75"

\* C18: a Play past its lookup holds no lock, and the synthdef it carries is
\* the one its name is bound to, that of the Add that returned nil, whatever
\* Adds have run since; the synthdef handed to the backend is that one; while
\* every other goroutine is past its lookup in Play or in no call, an Add
\* can take its next step, whichever it is: own the write side, enter, check,
\* insert, unlock.
C18_PlayDoesNotBlockAdd ==
    /\ \A t \in Threads :
           PastLookup(t)
               => /\ ~Holds(t)
                  /\ th[t].name \in DOMAIN m
                  /\ th[t].def = m[th[t].name]
                  /\ hist[th[t].name] # <<>>
                  /\ th[t].def
                         = NewSynthdef(th[t].name, hist[th[t].name][1])
    /\ \A t \in Threads :
           (Returned(t, "Play") /\ th[t].calls # <<>>)
               => /\ th[t].calls[1].def = m[th[t].name]
                  /\ th[t].calls[1].def
                         = NewSynthdef(th[t].name, hist[th[t].name][1])
    /\ \A u \in Threads :
           (\A v \in Threads \ {u} : PastLookup(v) \/ Outside(v))
               => /\ th[u].pc = "Add44" => ENABLED AddLock(u)
                  /\ th[u].pc = "Add44w" => ENABLED AddLockWait(u)
                  /\ th[u].pc = "Add45" => ENABLED AddCheck(u)
                  /\ th[u].pc = "Add46" => ENABLED AddDupl(u)
                  /\ th[u].pc = "Add49" => ENABLED AddInsert(u)
                  /\ th[u].pc = "Add50" => ENABLED AddDone(u)

\* while a Play is at its backend call an Add of another name has inserted
\* its synthdef and holds the write lock
C18_Witness ==
    \E t, u \in Threads :
        /\ AtBackend(t)
        /\ th[u].pc = "Add50"
        /\ th[u].name \in DOMAIN m
        /\ th[u].name # th[t].name

----------------------------------------------------------------------------
\* C16: with a fair scheduler, a fair lock and a backend that returns, every
\* call of Add, List, Play and Run that has started returns.
C16_EveryCallReturns ==
    \A t \in Threads : (th[t].pc \notin { "idle", "done" }) ~> (th[t].pc = "done")

\* an Add that owns the write side waits for a Run that holds the read lock
C16_Witness ==
    \E t, u \in Threads :
        /\ th[t].pc = "Add44w"
        /\ Reading(u)
        /\ th[u].op = "Run"

====
